---- MODULE Spec2Model ----
(***************************************************************************)
(* calendar-widgets: getDaysInMonth, isValidYear, formatDate,              *)
(* listDaysInMonth, the month tables and the two getCalendarYear           *)
(* functions, over a model of the ECMAScript Date arithmetic they use.     *)
(*                                                                         *)
(* JavaScript values are records [type, nan, v]; a JavaScript string is a  *)
(* sequence of pieces whose concatenation is the string.  Dates are local  *)
(* day numbers (days since 1970-01-01); the host time zone is taken to map *)
(* a local midnight to itself, as every fixed-offset zone does.            *)
(***************************************************************************)
EXTENDS Integers, Sequences

VARIABLES hostLocale, op, args, result

vars == <<hostLocale, op, args, result>>

----------------------------------------------------------------------------
(* Bounds of the model *)

\* years this far outside 1900..2100 are also passed to every function
YearMargin == 2

----------------------------------------------------------------------------
(* JavaScript values *)

Num(n) == [type |-> "number", nan |-> FALSE, v |-> n]

NaN == [type |-> "number", nan |-> TRUE, v |-> 0]

Undefined == [type |-> "undefined", nan |-> FALSE, v |-> 0]

\* ToNumber: undefined converts to NaN
ToNumber(x) == IF x.type = "number" THEN x ELSE NaN

isNaN(x) == ToNumber(x).nan

\* a !== b
StrictNotEqual(a, b) ==
    \/ a.type /= b.type
    \/ a.type = "number" /\ (a.nan \/ b.nan \/ a.v /= b.v)

\* x.length for a primitive number: Number.prototype has no such property
LengthOfNumber(x) == Undefined

DigitChar(d) == <<"0", "1", "2", "3", "4", "5", "6", "7", "8", "9">>[d + 1]

RECURSIVE Digits(_)
Digits(n) == IF n < 10 THEN <<DigitChar(n)>>
             ELSE Digits(n \div 10) \o <<DigitChar(n % 10)>>

\* Number::toString for NaN and integers
NumberToString(x) ==
    IF x.nan THEN <<"NaN">>
    ELSE IF x.v < 0 THEN <<"-">> \o Digits(-x.v)
    ELSE Digits(x.v)

\* ToString, as applied by string concatenation
JSToString(x) == IF x.type = "undefined" THEN <<"undefined">> ELSE NumberToString(x)

----------------------------------------------------------------------------
(* ECMAScript Date: new Date(year, month, day) and its getters *)

DaysInYear(y) ==
    IF y % 4 /= 0 THEN 365
    ELSE IF y % 100 /= 0 THEN 366
    ELSE IF y % 400 /= 0 THEN 365
    ELSE 366

DayFromYear(y) ==
    365 * (y - 1970) + ((y - 1969) \div 4) - ((y - 1901) \div 100) + ((y - 1601) \div 400)

\* day within a year of the given length on which month mn (0..12) starts
MonthStart(daysInYear, mn) ==
    IF mn = 0 THEN 0
    ELSE IF mn = 1 THEN 31
    ELSE <<59, 90, 120, 151, 181, 212, 243, 273, 304, 334, 365>>[mn - 1]
         + (daysInYear - 365)

\* MakeDay: months outside 0..11 carry into the year, the date is an offset
MakeDay(year, month, date) ==
    LET ym == year + (month \div 12)
        mn == month % 12
    IN  DayFromYear(ym) + MonthStart(DaysInYear(ym), mn) + date - 1

\* YearFromTime: the largest y with DayFromYear(y) <= d
YearFromDay(d) ==
    LET a == 1970 + (d \div 365)
        b == 1970 + (d \div 366)
    IN  CHOOSE y \in ((IF a < b THEN a ELSE b) - 1)..((IF a < b THEN b ELSE a) + 1) :
            DayFromYear(y) <= d /\ d < DayFromYear(y + 1)

\* MonthFromTime, from the day within the year
MonthFromDayWithinYear(daysInYear, w) ==
    CHOOSE m \in 0..11 : MonthStart(daysInYear, m) <= w /\ w < MonthStart(daysInYear, m + 1)

\* YearFromTime, MonthFromTime and DateFromTime of a day number
CivilWithin(y, daysInYear, w) ==
    LET m == MonthFromDayWithinYear(daysInYear, w)
    IN  [year |-> y, month |-> m, date |-> w - MonthStart(daysInYear, m) + 1]

CivilOfYear(y, d) == CivilWithin(y, DaysInYear(y), d - DayFromYear(y))

CivilFromDay(d) == CivilOfYear(YearFromDay(d), d)

InvalidDate == [valid |-> FALSE, day |-> 0]

\* TimeClip: a time value beyond 8.64e15 ms (100,000,000 days) is NaN
TimeClip(d) ==
    IF d > 100000000 \/ d < -100000000 THEN InvalidDate
    ELSE [valid |-> TRUE, day |-> d]

\* new Date(year, month, day): a NaN component gives an Invalid Date, and a
\* year of 0..99 means 1900 + year
NewDate(year, month, day) ==
    LET y == ToNumber(year)
        m == ToNumber(month)
        d == ToNumber(day)
    IN  IF y.nan \/ m.nan \/ d.nan THEN InvalidDate
        ELSE LET yr == IF 0 <= y.v /\ y.v <= 99 THEN 1900 + y.v ELSE y.v
             IN  TimeClip(MakeDay(yr, m.v, d.v))

getFullYear(date) == IF date.valid THEN Num(YearFromDay(date.day)) ELSE NaN

getDate(date) == IF date.valid THEN Num(CivilFromDay(date.day).date) ELSE NaN

----------------------------------------------------------------------------
(* Date.prototype.toLocaleDateString(locale, {year: numeric, month: 2-digit, *)
(* day: 2-digit})                                                            *)

HostLocales == {"en-US", "en-GB", "de-DE"}

Pad2(n) == IF n < 10 THEN <<"0">> \o Digits(n) ELSE Digits(n)

\* the year of the era: proleptic year 0 is 1 BC
YearOfEra(y) == IF y > 0 THEN y ELSE 1 - y

\* the fields in the order and with the separator of the locale
FormatFields(tag, civil) ==
    LET yyyy == Digits(YearOfEra(civil.year))
        mm   == Pad2(civil.month + 1)
        dd   == Pad2(civil.date)
    IN  IF tag = "en-US" THEN mm \o <<"/">> \o dd \o <<"/">> \o yyyy
        ELSE IF tag = "en-GB" THEN dd \o <<"/">> \o mm \o <<"/">> \o yyyy
        ELSE dd \o <<".">> \o mm \o <<".">> \o yyyy

\* an undefined locale argument means the default locale of the host
toLocaleDateString(date, locale) ==
    IF ~date.valid THEN <<"Invalid Date">>
    ELSE FormatFields(IF locale = "undefined" THEN hostLocale ELSE locale,
                      CivilFromDay(date.day))

----------------------------------------------------------------------------
(* The utility functions *)

\* x - 1
Minus1(x) == IF ToNumber(x).nan THEN NaN ELSE Num(ToNumber(x).v - 1)

\* getDaysInMonth taking day 0 of the month itself, not of the month after
getDaysInMonth_ofMonthBefore(year, month) == getDate(NewDate(year, Minus1(month), Num(0)))

getDaysInMonth(year, month) == getDate(NewDate(year, month, Num(0)))

\* isValidYear counting the characters of the numeral of the year read back
isValidYear_numeralLength(year) ==
    LET date == NewDate(year, Num(1), Num(1))
        y    == getFullYear(date)
    IN  IF isNaN(y) \/ Len(NumberToString(y)) /= 4 THEN FALSE
        ELSE TRUE

isValidYear(year) ==
    LET date == NewDate(year, Num(1), Num(1))
        y    == getFullYear(date)
    IN  IF isNaN(y) \/ StrictNotEqual(LengthOfNumber(y), Num(4)) THEN FALSE
        ELSE TRUE

formatDate(month, day, year, locale) ==
    LET date == NewDate(year, Minus1(month), day)
    IN  toLocaleDateString(date, locale)

\* for (let day = 1; day <= daysInMonth; day++) dates.push(formatDate(...))
RECURSIVE listDaysLoop(_, _, _, _, _)
listDaysLoop(month, year, daysInMonth, day, dates) ==
    IF ~daysInMonth.nan /\ day <= daysInMonth.v
    THEN listDaysLoop(month, year, daysInMonth, day + 1,
                      Append(dates, formatDate(month, Num(day), year, "undefined")))
    ELSE dates

\* listDaysInMonth stopping before the last day
listDaysInMonth_exclusive(month, year) ==
    LET daysInMonth == getDate(NewDate(year, month, Num(0)))
    IN  listDaysLoop(month, year, Minus1(daysInMonth), 1, <<>>)

listDaysInMonth(month, year) ==
    LET daysInMonth == getDate(NewDate(year, month, Num(0)))
    IN  listDaysLoop(month, year, daysInMonth, 1, <<>>)

months_2 ==
    << <<"J", "a", "n", "u", "a", "r", "y">>,
       <<"F", "e", "b", "r", "u", "a", "r", "y">>,
       <<"M", "a", "r", "c", "h">>,
       <<"A", "p", "r", "i", "l">>,
       <<"M", "a", "y">>,
       <<"J", "u", "n", "e">>,
       <<"J", "u", "l", "y">>,
       <<"A", "u", "g", "u", "s", "t">>,
       <<"S", "e", "p", "t", "e", "m", "b", "e", "r">>,
       <<"O", "c", "t", "o", "b", "e", "r">>,
       <<"N", "o", "v", "e", "m", "b", "e", "r">>,
       <<"D", "e", "c", "e", "m", "b", "e", "r">> >>

months_1 ==
    << <<"e", "n", "e", "r", "o">>,
       <<"f", "e", "b", "r", "e", "r", "o">>,
       <<"m", "a", "r", "z", "o">>,
       <<"a", "b", "r", "i", "l">>,
       <<"m", "a", "y", "o">>,
       <<"j", "u", "n", "i", "o">>,
       <<"j", "u", "l", "i", "o">>,
       <<"a", "g", "o", "s", "t", "o">>,
       <<"s", "e", "p", "t", "i", "e", "m", "b", "r", "e">>,
       <<"o", "c", "t", "u", "b", "r", "e">>,
       <<"n", "o", "v", "i", "e", "m", "b", "r", "e">>,
       <<"d", "i", "c", "i", "e", "m", "b", "r", "e">> >>

locale == [en |-> [months |-> months_2], es |-> [months |-> months_1]]

UpperCaseLetters ==
    <<"A", "B", "C", "D", "E", "F", "G", "H", "I", "J", "K", "L", "M",
      "N", "O", "P", "Q", "R", "S", "T", "U", "V", "W", "X", "Y", "Z">>

LowerCaseLetters ==
    <<"a", "b", "c", "d", "e", "f", "g", "h", "i", "j", "k", "l", "m",
      "n", "o", "p", "q", "r", "s", "t", "u", "v", "w", "x", "y", "z">>

toLowerChar(c) ==
    IF \E i \in 1..Len(UpperCaseLetters) : UpperCaseLetters[i] = c
    THEN LowerCaseLetters[CHOOSE i \in 1..Len(UpperCaseLetters) : UpperCaseLetters[i] = c]
    ELSE c

toLowerCase(str) == [i \in 1..Len(str) |-> toLowerChar(str[i])]

\* Array.prototype.indexOf: the first index (from 0) holding x, or -1
indexOf(arr, x) ==
    IF \E i \in 1..Len(arr) : arr[i] = x
    THEN (CHOOSE i \in 1..Len(arr) : arr[i] = x /\ \A j \in 1..(i - 1) : arr[j] /= x) - 1
    ELSE -1

----------------------------------------------------------------------------
(* Objects: the entries [key, value] in property insertion order *)

EmptyObject == <<>>

HasKey(obj, key) == \E i \in 1..Len(obj) : obj[i].key = key

\* defining a property: an existing key keeps its place and takes the value
ObjectSet(obj, key, value) ==
    IF HasKey(obj, key)
    THEN [i \in 1..Len(obj) |->
            IF obj[i].key = key THEN [key |-> key, value |-> value] ELSE obj[i]]
    ELSE Append(obj, [key |-> key, value |-> value])

\* {...source} onto target: the source's own properties in their order
RECURSIVE Spread(_, _, _)
Spread(target, source, i) ==
    IF i > Len(source) THEN target
    ELSE Spread(ObjectSet(target, source[i].key, source[i].value), source, i + 1)

Keys(obj) == [i \in 1..Len(obj) |-> obj[i].key]

ErrorKey == <<"e", "r", "r", "o", "r">>

BodyKey == <<"b", "o", "d", "y">>

\* the grave accent, which a TLA+ string cannot hold
GraveAccent == "U+0060"

\* the message, in pieces, the year converted by the concatenation
ErrorBody(year) ==
    << "The argument passed to ", GraveAccent, "calendar('YYYY')", GraveAccent,
       " must be a valid year ", "between 1900 and 2100", ". You passed " >>
    \o JSToString(year) \o <<".">>

ErrorObject(year) ==
    << [key |-> ErrorKey, value |-> <<[key |-> BodyKey, value |-> ErrorBody(year)]>>] >>

----------------------------------------------------------------------------
(* Completions of a call *)

Return(v) == [completion |-> "return", value |-> v]

Throw(name) == [completion |-> "throw", value |-> name]

----------------------------------------------------------------------------
(* getCalendarYear *)

\* the callback of reduceRight: {[current.toLowerCase()]: {count, collection},
\* ...collector}; listDaysInMonth is handed (year, index + 1)
monthReducer(months, year, collector, current) ==
    LET index == Num(indexOf(months, current) + 1)
        entry == [count      |-> getDaysInMonth(year, index),
                  collection |-> listDaysInMonth(year, index)]
    IN  Spread(<<[key |-> toLowerCase(current), value |-> entry]>>, collector, 1)

\* Array.prototype.reduceRight with an initial value: from the last element down
RECURSIVE reduceRight(_, _, _, _)
reduceRight(months, year, i, collector) ==
    IF i = 0 THEN collector
    ELSE reduceRight(months, year, i - 1, monthReducer(months, year, collector, months[i]))

\* src/utils/getCalendarYear.js
getCalendarYear(year) ==
    IF ~isValidYear(year) THEN Return(ErrorObject(year))
    ELSE Return(reduceRight(locale.en.months, year, Len(locale.en.months), EmptyObject))

\* the top-level bindings of the bundled module
BundleBindings ==
    {"getDaysInMonth", "isValidYear", "formatDate", "listDaysInMonth",
     "months$2", "months$1", "locale", "getCalendarYear"}

\* the bundled getCalendarYear: the branches are the other way round, and the
\* fold reads the identifier months, which resolves only if the module binds it
getCalendarYear_bundle(year) ==
    IF isValidYear(year) THEN Return(ErrorObject(year))
    ELSE IF "months" \notin BundleBindings THEN Throw("ReferenceError")
    ELSE Return(reduceRight(months_2, year, Len(months_2), EmptyObject))

----------------------------------------------------------------------------
(* Inputs *)

MinYear == 1900

MaxYear == 2100

CalYears == (MinYear - YearMargin)..(MaxYear + YearMargin)

\* years whose readback has fewer or more than four digits, or is remapped
OddYears == {-1, 0, 99, 100, 999, 1000, 9999, 10000}

YearInputs == {Num(y) : y \in CalYears \cup OddYears} \cup {Undefined, NaN}

\* the years formatDate is called with alone: those around the ends of the
\* range and around the leap century
FormatYears ==
    {y \in CalYears : \E c \in {MinYear, 2000, MaxYear} : y - c \in (-YearMargin)..YearMargin}

Months == 1..12

Days == 1..31

LocaleArgs == {"undefined"} \cup HostLocales

NoArgs == [year |-> Undefined, month |-> Undefined, day |-> Undefined, locale |-> "undefined"]

----------------------------------------------------------------------------
(* The calls: each behaviour is one call made from the idle state *)

TypeOK ==
    /\ hostLocale \in HostLocales
    /\ op \in {"none", "isValidYear", "getDaysInMonth", "formatDate", "listDaysInMonth",
               "getCalendarYear", "getCalendarYear_bundle"}
    /\ result.completion \in {"none", "return", "throw"}

Init ==
    /\ hostLocale \in HostLocales
    /\ op = "none"
    /\ args = NoArgs
    /\ result = [completion |-> "none", value |-> Undefined]

Call_isValidYear ==
    /\ op = "none"
    /\ \E year \in YearInputs :
           /\ op' = "isValidYear"
           /\ args' = [NoArgs EXCEPT !.year = year]
           /\ result' = Return(isValidYear(year))
           /\ UNCHANGED hostLocale

Call_getDaysInMonth ==
    /\ op = "none"
    /\ \E y \in CalYears, m \in Months :
           /\ op' = "getDaysInMonth"
           /\ args' = [NoArgs EXCEPT !.year = Num(y), !.month = Num(m)]
           /\ result' = Return(getDaysInMonth(Num(y), Num(m)))
           /\ UNCHANGED hostLocale

Call_formatDate ==
    /\ op = "none"
    /\ \E y \in FormatYears, m \in Months, d \in Days, l \in LocaleArgs :
           /\ op' = "formatDate"
           /\ args' = [year |-> Num(y), month |-> Num(m), day |-> Num(d), locale |-> l]
           /\ result' = Return(formatDate(Num(m), Num(d), Num(y), l))
           /\ UNCHANGED hostLocale

Call_listDaysInMonth ==
    /\ op = "none"
    /\ \E y \in CalYears, m \in Months :
           /\ op' = "listDaysInMonth"
           /\ args' = [NoArgs EXCEPT !.year = Num(y), !.month = Num(m)]
           /\ result' = Return(listDaysInMonth(Num(m), Num(y)))
           /\ UNCHANGED hostLocale

Call_getCalendarYear ==
    /\ op = "none"
    /\ \E year \in YearInputs :
           /\ op' = "getCalendarYear"
           /\ args' = [NoArgs EXCEPT !.year = year]
           /\ result' = getCalendarYear(year)
           /\ UNCHANGED hostLocale

Call_getCalendarYear_bundle ==
    /\ op = "none"
    /\ \E year \in YearInputs :
           /\ op' = "getCalendarYear_bundle"
           /\ args' = [NoArgs EXCEPT !.year = year]
           /\ result' = getCalendarYear_bundle(year)
           /\ UNCHANGED hostLocale

Next ==
    \/ Call_isValidYear
    \/ Call_getCalendarYear
    \/ Call_getCalendarYear_bundle
    \/ Call_getDaysInMonth
    \/ Call_formatDate
    \/ Call_listDaysInMonth

Spec == Init /\ [][Next]_vars

----------------------------------------------------------------------------
(* Vocabulary of the properties *)

IsInteger(x) == x.type = "number" /\ ~x.nan

\* the year argument is an integer of 1900..2100
YearInRange == IsInteger(args.year) /\ MinYear <= args.year.v /\ args.year.v <= MaxYear

\* the year argument is an integer outside 1900..2100
YearOutOfRange == IsInteger(args.year) /\ (args.year.v < MinYear \/ args.year.v > MaxYear)

Returned == result.completion = "return"

\* the returned object is {error: {body}}
IsErrorObject(obj) ==
    /\ Keys(obj) = <<ErrorKey>>
    /\ Keys(obj[1].value) = <<BodyKey>>

LowerCaseMonthNames ==
    << <<"j", "a", "n", "u", "a", "r", "y">>,
       <<"f", "e", "b", "r", "u", "a", "r", "y">>,
       <<"m", "a", "r", "c", "h">>,
       <<"a", "p", "r", "i", "l">>,
       <<"m", "a", "y">>,
       <<"j", "u", "n", "e">>,
       <<"j", "u", "l", "y">>,
       <<"a", "u", "g", "u", "s", "t">>,
       <<"s", "e", "p", "t", "e", "m", "b", "e", "r">>,
       <<"o", "c", "t", "o", "b", "e", "r">>,
       <<"n", "o", "v", "e", "m", "b", "e", "r">>,
       <<"d", "e", "c", "e", "m", "b", "e", "r">> >>

\* the returned object has the twelve lower-case month names as its keys
IsCalendarYear(obj) ==
    /\ Len(obj) = 12
    /\ ~HasKey(obj, ErrorKey)
    /\ {obj[i].key : i \in 1..Len(obj)} = {LowerCaseMonthNames[i] : i \in 1..12}

\* the Gregorian length of month m of year y, by the leap year rule
GregorianLength(y, m) ==
    IF m \in {1, 3, 5, 7, 8, 10, 12} THEN 31
    ELSE IF m \in {4, 6, 9, 11} THEN 30
    ELSE IF y % 4 = 0 /\ (y % 100 /= 0 \/ y % 400 = 0) THEN 29
    ELSE 28

IsDigit(c) == \E d \in 0..9 : DigitChar(d) = c

DigitValue(c) == CHOOSE d \in 0..9 : DigitChar(d) = c

\* the number a sequence of digit characters writes, read from the left
RECURSIVE ReadDigits(_, _, _)
ReadDigits(str, i, acc) ==
    IF i > Len(str) THEN acc
    ELSE ReadDigits(str, i + 1, 10 * acc + DigitValue(str[i]))

\* str is the decimal numeral of the integer n
WritesInteger(str, n) ==
    LET digits == IF Len(str) > 0 /\ str[1] = "-" THEN Tail(str) ELSE str
    IN  /\ Len(digits) > 0
        /\ \A i \in 1..Len(digits) : IsDigit(digits[i])
        /\ (Len(str) > 0 /\ str[1] = "-") = (n < 0)
        /\ ReadDigits(digits, 1, 0) = (IF n < 0 THEN -n ELSE n)

\* the text contains the decimal numeral of n
ContainsInteger(text, n) ==
    \E i \in 1..Len(text) : \E j \in i..Len(text) : WritesInteger(SubSeq(text, i, j), n)

ContainsPiece(text, piece) == \E i \in 1..Len(text) : text[i] = piece

----------------------------------------------------------------------------
(* The properties *)

\* C1: for every integer year of 1900..2100, getCalendarYear (either of the
\* two) returns a CalendarYear: an object with no error field and exactly
\* twelve entries, one per lower-cased month name.
C1_ValidYearGivesCalendarYear ==
    (op \in {"getCalendarYear", "getCalendarYear_bundle"} /\ YearInRange)
        => (Returned /\ IsCalendarYear(result.value))

C3_ValidIffFourDigitReadback ==
    op = "isValidYear"
        => LET y == getFullYear(NewDate(args.year, Num(1), Num(1)))
           IN  /\ result.value = (~y.nan /\ Len(NumberToString(y)) = 4)
               /\ YearInRange => result.value = TRUE

\* C4: for every integer year of 1900..2100 and month of 1..12,
\* getDaysInMonth is the Gregorian length of the month: 31, 30, or for
\* February 29 in a leap year and 28 otherwise.
C4_DaysInMonthIsGregorian ==
    (op = "getDaysInMonth" /\ YearInRange /\ args.month.v \in 1..12)
        => result = Return(Num(GregorianLength(args.year.v, args.month.v)))

C4_Witness ==
    /\ op = "getDaysInMonth"
    /\ \/ args.year = Num(2024) /\ args.month = Num(2) /\ result.value = Num(29)
       \/ args.year = Num(1900) /\ args.month = Num(2) /\ result.value = Num(28)
       \/ args.year = Num(2000) /\ args.month = Num(2) /\ result.value = Num(29)

\* C5: for every integer year of 1900..2100, each of the twelve month
\* entries of getCalendarYear has a collection as long as its count.
C5_CollectionLengthIsCount ==
    (op = "getCalendarYear" /\ YearInRange)
        => /\ Returned
           /\ IsCalendarYear(result.value)
           /\ \A i \in 1..Len(result.value) :
                  Num(Len(result.value[i].value.collection)) = result.value[i].value.count

\* C6: for every integer year Y of 1900..2100 and month m, the collection
\* of month m in getCalendarYear(Y) is what the day lister returns for
\* month m of year Y: its k-th element is the formatted date (Y, m, k).
C6_CollectionIsDayList ==
    (op = "getCalendarYear" /\ YearInRange)
        => /\ Returned
           /\ IsCalendarYear(result.value)
           /\ \A m \in 1..12 : \E i \in 1..Len(result.value) :
                  /\ result.value[i].key = LowerCaseMonthNames[m]
                  /\ result.value[i].value.collection = listDaysInMonth(Num(m), args.year)
                  /\ \A k \in 1..Len(result.value[i].value.collection) :
                         result.value[i].value.collection[k]
                             = formatDate(Num(m), Num(k), args.year, "undefined")

\* C7: whenever getCalendarYear returns a CalendarYear, its keys in
\* insertion order are the month names in calendar order.  (No call of the
\* model returns a CalendarYear, so this holds with no state to show for it.)
C7_KeysInCalendarOrder ==
    (op \in {"getCalendarYear", "getCalendarYear_bundle"} /\ Returned
        /\ ~HasKey(result.value, ErrorKey))
        => Keys(result.value) = LowerCaseMonthNames

\* C8: for every integer year Y of 1900..2100 and month m of 1..12,
\* listDaysInMonth(m, Y) has getDaysInMonth(Y, m) elements and its i-th
\* element is formatDate(m, i, Y): one string per day, in ascending order.
C8_ListIsOneFormattedDatePerDay ==
    (op = "listDaysInMonth" /\ YearInRange /\ args.month.v \in 1..12)
        => /\ Returned
           /\ Num(Len(result.value)) = getDaysInMonth(args.year, args.month)
           /\ Len(result.value) = GregorianLength(args.year.v, args.month.v)
           /\ \A i \in 1..Len(result.value) :
                  result.value[i] = formatDate(args.month, Num(i), args.year, "undefined")

C8_Witness ==
    /\ op = "listDaysInMonth"
    /\ args.month = Num(2)
    /\ \/ args.year = Num(2024) /\ Len(result.value) = 29
       \/ args.year = Num(2023) /\ Len(result.value) = 28

\* C9: for every input, a call of getCalendarYear (either of the two)
\* completes by returning a value and never raises an exception.
C9_NeverThrows ==
    op \in {"getCalendarYear", "getCalendarYear_bundle"} => Returned

\* C10: the two getCalendarYear functions have the same outcome for every
\* input: the same error object or the same CalendarYear.
C10_SameOutcome ==
    op = "getCalendarYear"
        => /\ Returned
           /\ result = getCalendarYear_bundle(args.year)

====
